---- MODULE Spec2Model ----
(***************************************************************************)
(* Finite-difference stencil operators of sopht.numeric.eulerian_grid_ops: *)
(*   - stencil_ops_3d/update_vorticity_from_velocity_forcing_3d.py         *)
(*   - stencil_ops_2d/outplane_field_curl_2d.py                            *)
(*   - stencil_ops_2d/penalise_field_boundary_2d.py                        *)
(* Floating point values are modelled by exact integers (3D accumulators,  *)
(* 2D curl) and exact rationals (boundary penalisation).                   *)
(***************************************************************************)
EXTENDS Integers, Sequences, FiniteSets, TLC

VARIABLES
    \* ---- 3D vorticity accumulators: the caller's buffers
    vorticity_field,            \* (3, n, n, n), mutated in place
    velocity_forcing_field,     \* (3, n, n, n), read only
    penalised_velocity_field,   \* (3, n, n, n), read only
    velocity_field,             \* (3, n, n, n), read only
    vorticity_init,             \* history: vorticity_field before the first call
    vorticity_prev,             \* history: vorticity_field before the latest call
    inputs_prev,                \* history: the three input buffers before the latest call
    calls,                      \* history: the calls made so far, oldest first
    \* ---- 2D out-of-plane curl: the caller's buffers
    curl,                       \* (2, N, M), output
    field,                      \* (N, M), input
    curl_prev,                  \* history: curl before the latest call
    field_prev,                 \* history: field before the latest call
    curl_calls,                 \* history: the prefactors of the calls made so far
    \* ---- 2D boundary penalisation
    pen_field,                  \* (N, M), the field buffer, mutated in place
    x_grid_field,               \* (N, M), x coordinate of every grid point
    y_grid_field,               \* (N, M), y coordinate of every grid point
    dx,                         \* grid spacing
    width_arg,                  \* the width handed to the generator ("none" before)
    pen_kernel,                 \* what the generator returned: its closure, or an error
    pen_raised,                 \* whether the latest kernel call raised
    pen_calls,                  \* history: number of kernel calls made
    pen_field_prev,             \* history: the field before the latest kernel call
    pen_buffers_init            \* history: the three buffers as first allocated

vortVars == <<vorticity_field, velocity_forcing_field, penalised_velocity_field,
              velocity_field, vorticity_init, vorticity_prev, inputs_prev, calls>>

curlVars == <<curl, field, curl_prev, field_prev, curl_calls>>

penVars == <<pen_field, x_grid_field, y_grid_field, dx, width_arg, pen_kernel,
             pen_raised, pen_calls, pen_field_prev, pen_buffers_init>>

vars == <<vortVars, curlVars, penVars>>

\* The buffers of the operators a driver does not use are never allocated.
Unused == "unused"
IdleVort ==
    /\ vorticity_field = Unused /\ velocity_forcing_field = Unused
    /\ penalised_velocity_field = Unused /\ velocity_field = Unused
    /\ vorticity_init = Unused /\ vorticity_prev = Unused
    /\ inputs_prev = Unused /\ calls = Unused
IdleCurl ==
    /\ curl = Unused /\ field = Unused /\ curl_prev = Unused
    /\ field_prev = Unused /\ curl_calls = Unused
IdlePen ==
    /\ pen_field = Unused /\ x_grid_field = Unused /\ y_grid_field = Unused
    /\ dx = Unused /\ width_arg = Unused /\ pen_kernel = Unused /\ pen_raised = Unused
    /\ pen_calls = Unused /\ pen_field_prev = Unused /\ pen_buffers_init = Unused

(***************************************************************************)
(* 3D grid, fields and the iteration space of a compiled stencil kernel    *)
(***************************************************************************)
GridSize3 == 3
NumSeeds == 2
MaxCalls == 2

Axis3 == 0..(GridSize3 - 1)
Cells3 == Axis3 \X Axis3 \X Axis3
Comps3 == 0..2

\* Every stencil of the 3D file reaches one cell in each direction, so the
\* compiled kernel leaves a one-cell ghost layer on every face and loops over
\* the cells strictly inside it.
Interior3 == {c \in Cells3 : \A a \in 1..3 : c[a] >= 1 /\ c[a] <= GridSize3 - 2}

\* fld[dz, dy, dx] relative to the current cell c: a relative field access.
At3(fld, c, o) == fld[<<c[1] + o[1], c[2] + o[2], c[3] + o[3]>>]

\* Caller-supplied input data: a family of irregular integer-valued vector fields.
HashField(s) ==
    [k \in Comps3 |->
        [c \in Cells3 |->
            (((s + 1) * (c[1] * c[1] + 2 * c[2] + 3 * c[3] * c[2] + k)
              + (s + 2) * (k + 1) * (c[1] * c[2] + c[3])
              + s * (k + 2) * c[3] * c[3] + 5 * c[1]) % 7) - 3]]

\* Cellwise difference, sum and zero of (3, n, n, n) fields.
VSub(a, b) == [k \in Comps3 |-> [c \in Cells3 |-> a[k][c] - b[k][c]]]
VAdd(a, b) == [k \in Comps3 |-> [c \in Cells3 |-> a[k][c] + b[k][c]]]
ZeroField3 == [k \in Comps3 |-> [c \in Cells3 |-> 0]]

FieldPool == {HashField(s) : s \in 0..(NumSeeds - 1)}
Prefactors == {-1, 2}

(***************************************************************************)
(* gen_update_vorticity_from_velocity_forcing_pyst_kernel_3d               *)
(***************************************************************************)
\* Fault: the x kernel overwrites the vorticity instead of adding to it.
forcing_x_comp_overwrites(vorticity_field_x, velocity_forcing_field_y, velocity_forcing_field_z, prefactor) ==
    [c \in Cells3 |->
        IF c \in Interior3
        THEN prefactor * (
                 At3(velocity_forcing_field_z, c, <<0, 1, 0>>)
                 - At3(velocity_forcing_field_z, c, <<0, -1, 0>>)
                 - At3(velocity_forcing_field_y, c, <<1, 0, 0>>)
                 + At3(velocity_forcing_field_y, c, <<-1, 0, 0>>))
        ELSE vorticity_field_x[c]]

update_vorticity_from_velocity_forcing_x_comp_kernel_3d(vorticity_field_x, velocity_forcing_field_y, velocity_forcing_field_z, prefactor) ==
    \* curl_x = df_z / dy - df_y / dz
    [c \in Cells3 |->
        IF c \in Interior3
        THEN vorticity_field_x[c] + prefactor * (
                 At3(velocity_forcing_field_z, c, <<0, 1, 0>>)
                 - At3(velocity_forcing_field_z, c, <<0, -1, 0>>)
                 - At3(velocity_forcing_field_y, c, <<1, 0, 0>>)
                 + At3(velocity_forcing_field_y, c, <<-1, 0, 0>>))
        ELSE vorticity_field_x[c]]

update_vorticity_from_velocity_forcing_y_comp_kernel_3d(vorticity_field_y, velocity_forcing_field_x, velocity_forcing_field_z, prefactor) ==
    \* curl_y = df_x / dz - df_z / dx
    [c \in Cells3 |->
        IF c \in Interior3
        THEN vorticity_field_y[c] + prefactor * (
                 At3(velocity_forcing_field_x, c, <<1, 0, 0>>)
                 - At3(velocity_forcing_field_x, c, <<-1, 0, 0>>)
                 - At3(velocity_forcing_field_z, c, <<0, 0, 1>>)
                 + At3(velocity_forcing_field_z, c, <<0, 0, -1>>))
        ELSE vorticity_field_y[c]]

\* Fault: the z kernel differences f_y along the first array axis instead of the last.
forcing_z_comp_wrong_axis(vorticity_field_z, velocity_forcing_field_x, velocity_forcing_field_y, prefactor) ==
    [c \in Cells3 |->
        IF c \in Interior3
        THEN vorticity_field_z[c] + prefactor * (
                 At3(velocity_forcing_field_y, c, <<1, 0, 0>>)
                 - At3(velocity_forcing_field_y, c, <<-1, 0, 0>>)
                 - At3(velocity_forcing_field_x, c, <<0, 1, 0>>)
                 + At3(velocity_forcing_field_x, c, <<0, -1, 0>>))
        ELSE vorticity_field_z[c]]

update_vorticity_from_velocity_forcing_z_comp_kernel_3d(vorticity_field_z, velocity_forcing_field_x, velocity_forcing_field_y, prefactor) ==
    \* curl_z = df_y / dx - df_x / dy
    [c \in Cells3 |->
        IF c \in Interior3
        THEN vorticity_field_z[c] + prefactor * (
                 At3(velocity_forcing_field_y, c, <<0, 0, 1>>)
                 - At3(velocity_forcing_field_y, c, <<0, 0, -1>>)
                 - At3(velocity_forcing_field_x, c, <<0, 1, 0>>)
                 + At3(velocity_forcing_field_x, c, <<0, -1, 0>>))
        ELSE vorticity_field_z[c]]

\* The value of vorticity_field after the call; the three component kernels
\* write disjoint components and read only the forcing field.
update_vorticity_from_velocity_forcing_pyst_kernel_3d(vorticity, forcing, prefactor) ==
    [k \in Comps3 |->
        CASE k = 0 -> update_vorticity_from_velocity_forcing_x_comp_kernel_3d(
                          vorticity[0], forcing[1], forcing[2], prefactor)
          [] k = 1 -> update_vorticity_from_velocity_forcing_y_comp_kernel_3d(
                          vorticity[1], forcing[0], forcing[2], prefactor)
          [] k = 2 -> update_vorticity_from_velocity_forcing_z_comp_kernel_3d(
                          vorticity[2], forcing[0], forcing[1], prefactor)]

(***************************************************************************)
(* gen_update_vorticity_from_penalised_velocity_pyst_kernel_3d             *)
(***************************************************************************)
update_vorticity_from_penalised_velocity_x_comp_kernel_3d(vorticity_field_x, penalised_velocity_field_y, penalised_velocity_field_z, velocity_field_y, velocity_field_z, prefactor) ==
    \* curl_x = df_z / dy - df_y / dz
    [c \in Cells3 |->
        IF c \in Interior3
        THEN vorticity_field_x[c] + prefactor * (
                 At3(penalised_velocity_field_z, c, <<0, 1, 0>>)
                 - At3(velocity_field_z, c, <<0, 1, 0>>)
                 - At3(penalised_velocity_field_z, c, <<0, -1, 0>>)
                 + At3(velocity_field_z, c, <<0, -1, 0>>)
                 - At3(penalised_velocity_field_y, c, <<1, 0, 0>>)
                 + At3(velocity_field_y, c, <<1, 0, 0>>)
                 + At3(penalised_velocity_field_y, c, <<-1, 0, 0>>)
                 - At3(velocity_field_y, c, <<-1, 0, 0>>))
        ELSE vorticity_field_x[c]]

\* Fault: one velocity_field_z term of the y kernel enters with the wrong sign.
penalised_y_comp_sign_slip(vorticity_field_y, penalised_velocity_field_x, penalised_velocity_field_z, velocity_field_x, velocity_field_z, prefactor) ==
    [c \in Cells3 |->
        IF c \in Interior3
        THEN vorticity_field_y[c] + prefactor * (
                 At3(penalised_velocity_field_x, c, <<1, 0, 0>>)
                 - At3(velocity_field_x, c, <<1, 0, 0>>)
                 - At3(penalised_velocity_field_x, c, <<-1, 0, 0>>)
                 + At3(velocity_field_x, c, <<-1, 0, 0>>)
                 - At3(penalised_velocity_field_z, c, <<0, 0, 1>>)
                 - At3(velocity_field_z, c, <<0, 0, 1>>)
                 + At3(penalised_velocity_field_z, c, <<0, 0, -1>>)
                 - At3(velocity_field_z, c, <<0, 0, -1>>))
        ELSE vorticity_field_y[c]]

update_vorticity_from_penalised_velocity_y_comp_kernel_3d(vorticity_field_y, penalised_velocity_field_x, penalised_velocity_field_z, velocity_field_x, velocity_field_z, prefactor) ==
    \* curl_y = df_x / dz - df_z / dx
    [c \in Cells3 |->
        IF c \in Interior3
        THEN vorticity_field_y[c] + prefactor * (
                 At3(penalised_velocity_field_x, c, <<1, 0, 0>>)
                 - At3(velocity_field_x, c, <<1, 0, 0>>)
                 - At3(penalised_velocity_field_x, c, <<-1, 0, 0>>)
                 + At3(velocity_field_x, c, <<-1, 0, 0>>)
                 - At3(penalised_velocity_field_z, c, <<0, 0, 1>>)
                 + At3(velocity_field_z, c, <<0, 0, 1>>)
                 + At3(penalised_velocity_field_z, c, <<0, 0, -1>>)
                 - At3(velocity_field_z, c, <<0, 0, -1>>))
        ELSE vorticity_field_y[c]]

update_vorticity_from_penalised_velocity_z_comp_kernel_3d(vorticity_field_z, penalised_velocity_field_x, penalised_velocity_field_y, velocity_field_x, velocity_field_y, prefactor) ==
    \* curl_z = df_y / dx - df_x / dy
    [c \in Cells3 |->
        IF c \in Interior3
        THEN vorticity_field_z[c] + prefactor * (
                 At3(penalised_velocity_field_y, c, <<0, 0, 1>>)
                 - At3(velocity_field_y, c, <<0, 0, 1>>)
                 - At3(penalised_velocity_field_y, c, <<0, 0, -1>>)
                 + At3(velocity_field_y, c, <<0, 0, -1>>)
                 - At3(penalised_velocity_field_x, c, <<0, 1, 0>>)
                 + At3(velocity_field_x, c, <<0, 1, 0>>)
                 + At3(penalised_velocity_field_x, c, <<0, -1, 0>>)
                 - At3(velocity_field_x, c, <<0, -1, 0>>))
        ELSE vorticity_field_z[c]]

update_vorticity_from_penalised_velocity_kernel_3d(vorticity, penalised, velocity, prefactor) ==
    [k \in Comps3 |->
        CASE k = 0 -> update_vorticity_from_penalised_velocity_x_comp_kernel_3d(
                          vorticity[0], penalised[1], penalised[2],
                          velocity[1], velocity[2], prefactor)
          [] k = 1 -> update_vorticity_from_penalised_velocity_y_comp_kernel_3d(
                          vorticity[1], penalised[0], penalised[2],
                          velocity[0], velocity[2], prefactor)
          [] k = 2 -> update_vorticity_from_penalised_velocity_z_comp_kernel_3d(
                          vorticity[2], penalised[0], penalised[1],
                          velocity[0], velocity[1], prefactor)]

(***************************************************************************)
(* The driver of the 3D accumulators: buffers allocated and filled once,   *)
(* then any sequence of accumulator calls on the same vorticity_field.     *)
(***************************************************************************)
InitVort ==
    /\ vorticity_field \in FieldPool
    /\ penalised_velocity_field \in FieldPool
    /\ velocity_field \in FieldPool
    /\ velocity_forcing_field \in
           FieldPool \cup {VSub(penalised_velocity_field, velocity_field)}
    /\ vorticity_init = vorticity_field
    /\ vorticity_prev = vorticity_field
    /\ inputs_prev = <<velocity_forcing_field, penalised_velocity_field, velocity_field>>
    /\ calls = <<>>
    /\ IdleCurl
    /\ IdlePen

CallForcing(prefactor) ==
    /\ Len(calls) < MaxCalls
    /\ vorticity_field' = update_vorticity_from_velocity_forcing_pyst_kernel_3d(
                              vorticity_field, velocity_forcing_field, prefactor)
    /\ calls' = Append(calls, [op |-> "forcing", prefactor |-> prefactor])
    /\ vorticity_prev' = vorticity_field
    /\ inputs_prev' = <<velocity_forcing_field, penalised_velocity_field, velocity_field>>
    /\ UNCHANGED <<velocity_forcing_field, penalised_velocity_field, velocity_field,
                   vorticity_init, curlVars, penVars>>

CallPenalised(prefactor) ==
    /\ Len(calls) < MaxCalls
    /\ vorticity_field' = update_vorticity_from_penalised_velocity_kernel_3d(
                              vorticity_field, penalised_velocity_field, velocity_field,
                              prefactor)
    /\ calls' = Append(calls, [op |-> "penalised", prefactor |-> prefactor])
    /\ vorticity_prev' = vorticity_field
    /\ inputs_prev' = <<velocity_forcing_field, penalised_velocity_field, velocity_field>>
    /\ UNCHANGED <<velocity_forcing_field, penalised_velocity_field, velocity_field,
                   vorticity_init, curlVars, penVars>>

UpdateVorticityFromVelocityForcing == \E prefactor \in Prefactors : CallForcing(prefactor)
UpdateVorticityFromPenalisedVelocity == \E prefactor \in Prefactors : CallPenalised(prefactor)

NextVort ==
    \/ UpdateVorticityFromVelocityForcing
    \/ UpdateVorticityFromPenalisedVelocity

SpecVort == InitVort /\ [][NextVort]_vars

(***************************************************************************)
(* Properties of the 3D accumulators                                       *)
(***************************************************************************)
LastCall == calls[Len(calls)]

\* The accumulator call `call` applied to the vorticity w with the current inputs.
ApplyCall(w, call) ==
    IF call.op = "forcing"
    THEN update_vorticity_from_velocity_forcing_pyst_kernel_3d(
             w, velocity_forcing_field, call.prefactor)
    ELSE update_vorticity_from_penalised_velocity_kernel_3d(
             w, penalised_velocity_field, velocity_field, call.prefactor)

RECURSIVE Replay(_, _)
Replay(w, cs) == IF cs = <<>> THEN w ELSE Replay(ApplyCall(w, Head(cs)), Tail(cs))

\* The increment of a call: what it adds to an all-zero vorticity.
Increment(call) == ApplyCall(ZeroField3, call)

RECURSIVE SumIncrements(_)
SumIncrements(cs) ==
    IF cs = <<>> THEN ZeroField3 ELSE VAdd(Increment(Head(cs)), SumIncrements(Tail(cs)))

\* Central difference of the scalar field fld along array axis a (1 = z, 2 = y, 3 = x).
Shift3(c, a, d) == [c EXCEPT ![a] = c[a] + d]
Diff3(fld, c, a) == fld[Shift3(c, a, 1)] - fld[Shift3(c, a, -1)]

\* C1: one call of update_vorticity_from_velocity_forcing with
\* velocity_forcing_field = penalised_velocity_field - velocity_field leaves
\* vorticity_field, at every cell of all three components, equal to what one call of
\* update_vorticity_from_penalised_velocity leaves from the same vorticity and prefactor.
C1_AccumulatorEquivalence ==
    LET diff == VSub(penalised_velocity_field, velocity_field) IN
    Len(calls) >= 1 =>
        /\ LastCall.op = "penalised" =>
               vorticity_field = update_vorticity_from_velocity_forcing_pyst_kernel_3d(
                                     vorticity_prev, diff, LastCall.prefactor)
        /\ (LastCall.op = "forcing" /\ velocity_forcing_field = diff) =>
               vorticity_field = update_vorticity_from_penalised_velocity_kernel_3d(
                                     vorticity_prev, penalised_velocity_field,
                                     velocity_field, LastCall.prefactor)

C1_Witness ==
    /\ Len(calls) >= 1
    /\ LastCall.op = "forcing"
    /\ velocity_forcing_field = VSub(penalised_velocity_field, velocity_field)
    /\ \E k \in Comps3 : \E c \in Interior3 : vorticity_field[k][c] # vorticity_prev[k][c]
    /\ \E k \in Comps3 : \E c \in Cells3 : vorticity_prev[k][c] # 0
    /\ \A k \in Comps3 : penalised_velocity_field[k] # velocity_field[k]

\* C2: after a call of update_vorticity_from_velocity_forcing every interior cell of
\* each vorticity component is its pre-call value plus prefactor times the
\* central-difference curl component of the forcing field (axes ordered z, y, x:
\* x: dfz/dy - dfy/dz, y: dfx/dz - dfz/dx, z: dfy/dx - dfx/dy), every cell of the outer
\* one-cell ring keeps its pre-call value, and the forcing field is unchanged.
C2_ForcingPostcondition ==
    (Len(calls) >= 1 /\ LastCall.op = "forcing") =>
        LET p == LastCall.prefactor
            fx == velocity_forcing_field[0]
            fy == velocity_forcing_field[1]
            fz == velocity_forcing_field[2]
        IN  /\ \A c \in Cells3 :
                IF \A a \in 1..3 : 0 < c[a] /\ c[a] < GridSize3 - 1
                THEN /\ vorticity_field[0][c] =
                            vorticity_prev[0][c] + p * (Diff3(fz, c, 2) - Diff3(fy, c, 1))
                     /\ vorticity_field[1][c] =
                            vorticity_prev[1][c] + p * (Diff3(fx, c, 1) - Diff3(fz, c, 3))
                     /\ vorticity_field[2][c] =
                            vorticity_prev[2][c] + p * (Diff3(fy, c, 3) - Diff3(fx, c, 2))
                ELSE \A k \in Comps3 : vorticity_field[k][c] = vorticity_prev[k][c]
            /\ velocity_forcing_field = inputs_prev[1]

C2_Witness ==
    /\ Len(calls) >= 1
    /\ LastCall.op = "forcing"
    /\ \A k \in Comps3 : \E c \in Interior3 : vorticity_field[k][c] # vorticity_prev[k][c]
    /\ \A k \in Comps3 : \E c \in Cells3 \ Interior3 : vorticity_field[k][c] # 0

\* C10: after any sequence of accumulator calls on the same vorticity_field the field
\* is the initial one plus the sum of the per-call increments (each a function of the
\* call's inputs and prefactor only), it is the same for every permutation of the
\* calls, and two consecutive calls of the same accumulator with prefactors a and b
\* give what one call with prefactor a + b gives.
C10_AdditiveComposition ==
    LET n == Len(calls) IN
    /\ vorticity_field = VAdd(vorticity_init, SumIncrements(calls))
    /\ \A perm \in Permutations(1..n) :
           Replay(vorticity_init, [i \in 1..n |-> calls[perm[i]]]) = vorticity_field
    /\ \A i \in 1..(n - 1) :
           calls[i].op = calls[i + 1].op =>
               Replay(vorticity_init,
                      SubSeq(calls, 1, i - 1)
                      \o <<[op |-> calls[i].op,
                            prefactor |-> calls[i].prefactor + calls[i + 1].prefactor]>>
                      \o SubSeq(calls, i + 2, n)) = vorticity_field

C10_Witness ==
    /\ Len(calls) = MaxCalls
    /\ calls[1].op # calls[2].op
    /\ calls[1].prefactor # calls[2].prefactor
    /\ \A i \in 1..2 : \A k \in Comps3 : \E c \in Interior3 : Increment(calls[i])[k][c] # 0
    /\ \E k \in Comps3 : \E c \in Interior3 : vorticity_init[k][c] # 0

(***************************************************************************)
(* 2D grids: shape (N, M) = (rows, columns), cell <<i, j>>                 *)
(***************************************************************************)
Cells2(N, M) == (0..(N - 1)) \X (0..(M - 1))

\* The cells a compiled kernel with a one-cell stencil loops over.
Interior2(N, M) == {c \in Cells2(N, M) : /\ 1 <= c[1] /\ c[1] <= N - 2
                                          /\ 1 <= c[2] /\ c[2] <= M - 2}

\* fld[di, dj] relative to the current cell c.
At2(fld, c, o) == fld[<<c[1] + o[1], c[2] + o[2]>>]

(***************************************************************************)
(* gen_outplane_field_curl_pyst_kernel_2d                                  *)
(***************************************************************************)
CurlRows == 3
CurlCols == 4
CurlCells == Cells2(CurlRows, CurlCols)
CurlInterior == Interior2(CurlRows, CurlCols)

\* Fault: the x kernel adds to the curl buffer instead of overwriting it.
curl_x_accumulates(curl_x, fld, prefactor) ==
    [c \in CurlCells |->
        IF c \in CurlInterior
        THEN curl_x[c] + (At2(fld, c, <<1, 0>>) - At2(fld, c, <<-1, 0>>)) * prefactor
        ELSE curl_x[c]]

outplane_field_curl_x_kernel_2d(curl_x, fld, prefactor) ==
    \* curl_x = d (field) / dy
    [c \in CurlCells |->
        IF c \in CurlInterior
        THEN (At2(fld, c, <<1, 0>>) - At2(fld, c, <<-1, 0>>)) * prefactor
        ELSE curl_x[c]]

outplane_field_curl_y_kernel_2d(curl_y, fld, prefactor) ==
    \* curl_y = -d (field) / dx
    [c \in CurlCells |->
        IF c \in CurlInterior
        THEN (At2(fld, c, <<0, -1>>) - At2(fld, c, <<0, 1>>)) * prefactor
        ELSE curl_y[c]]

\* to set boundary zone = 0
boundary_width == 1

\* Elementwise Boundary Setter (elementwise_ops_2d): every cell within `width` grid
\* points of any of the four edges is overwritten with fixed_val.
set_fixed_val_at_boundaries_2d(fld, width, fixed_val) ==
    [c \in CurlCells |->
        IF \/ c[1] < width \/ c[1] >= CurlRows - width
           \/ c[2] < width \/ c[2] >= CurlCols - width
        THEN fixed_val
        ELSE fld[c]]

\* Fault: the boundary of the second component is never reset.
curl_y_boundary_not_reset(curl_buf, fld, prefactor) ==
    LET curl_x == outplane_field_curl_x_kernel_2d(curl_buf[0], fld, prefactor)
        curl_y == outplane_field_curl_y_kernel_2d(curl_buf[1], fld, prefactor)
    IN  [k \in 0..1 |->
            IF k = 0 THEN set_fixed_val_at_boundaries_2d(curl_x, boundary_width, 0)
                     ELSE curl_y]

\* The value of the curl buffer after the call.
outplane_field_curl_pyst_kernel_2d(curl_buf, fld, prefactor) ==
    LET curl_x == outplane_field_curl_x_kernel_2d(curl_buf[0], fld, prefactor)
        curl_y == outplane_field_curl_y_kernel_2d(curl_buf[1], fld, prefactor)
    IN  \* set boundary unaffected points to 0
        [k \in 0..1 |->
            IF k = 0 THEN set_fixed_val_at_boundaries_2d(curl_x, boundary_width, 0)
                     ELSE set_fixed_val_at_boundaries_2d(curl_y, boundary_width, 0)]

\* Caller-supplied data: irregular scalar fields and single-cell fields.
HashField2(s) ==
    [c \in CurlCells |->
        ((s * 3 + 5 * c[1] * c[1] + 7 * c[2] + 3 * c[1] * c[2] * c[2] + 1) % 7) - 3]
UnitField2(at) == [c \in CurlCells |-> IF c = at THEN 1 ELSE 0]
FieldPool2 == {HashField2(s) : s \in 0..(NumSeeds - 1)} \cup {UnitField2(c) : c \in CurlCells}
CurlPool == {[k \in 0..1 |-> HashField2(s + 2 * k + 1)] : s \in 0..(NumSeeds - 1)}

InitCurl ==
    /\ field \in FieldPool2
    /\ curl \in CurlPool
    /\ curl_prev = curl
    /\ field_prev = field
    /\ curl_calls = <<>>
    /\ IdleVort
    /\ IdlePen

CallCurl(prefactor) ==
    /\ Len(curl_calls) < MaxCalls
    /\ curl' = outplane_field_curl_pyst_kernel_2d(curl, field, prefactor)
    /\ curl_prev' = curl
    /\ field_prev' = field
    /\ curl_calls' = Append(curl_calls, prefactor)
    /\ UNCHANGED <<field, vortVars, penVars>>

OutplaneFieldCurl == \E prefactor \in Prefactors : CallCurl(prefactor)

NextCurl == OutplaneFieldCurl

SpecCurl == InitCurl /\ [][NextCurl]_vars

\* C3: after a call of outplane_field_curl every interior cell holds
\* curl[0][i,j] = prefactor * (field[i+1,j] - field[i-1,j]) and
\* curl[1][i,j] = prefactor * (field[i,j-1] - field[i,j+1]), whatever the curl buffer
\* held before (overwritten, not accumulated), and field is unchanged.
C3_CurlInteriorFormula ==
    Len(curl_calls) >= 1 =>
        LET p == curl_calls[Len(curl_calls)] IN
        /\ \A i \in 1..(CurlRows - 2) : \A j \in 1..(CurlCols - 2) :
              /\ curl[0][<<i, j>>] = p * (field[<<i + 1, j>>] - field[<<i - 1, j>>])
              /\ curl[1][<<i, j>>] = p * (field[<<i, j - 1>>] - field[<<i, j + 1>>])
        /\ field = field_prev

C3_Witness ==
    /\ Len(curl_calls) >= 1
    /\ \A k \in 0..1 : \E c \in CurlInterior : curl[k][c] # 0
    /\ \A k \in 0..1 : \A c \in CurlInterior :
           curl_prev[k][c] # 0 /\ curl[k][c] # curl_prev[k][c]

\* C4: after any call of outplane_field_curl both curl components are exactly 0 at
\* every cell of the outer one-cell ring (row 0, row N-1, column 0, column M-1),
\* whatever the field, the prefactor and the prior content of the curl buffer.
C4_CurlZeroBoundary ==
    Len(curl_calls) >= 1 =>
        \A k \in 0..1 : \A c \in CurlCells :
            (c[1] = 0 \/ c[1] = CurlRows - 1 \/ c[2] = 0 \/ c[2] = CurlCols - 1)
                => curl[k][c] = 0

C4_Witness ==
    /\ Len(curl_calls) = 1
    /\ \A k \in 0..1 : \E c \in CurlCells \ CurlInterior : curl_prev[k][c] # 0
    /\ \A k \in 0..1 : \E c \in CurlInterior : curl[k][c] # 0
    /\ \A k \in 0..1 : \A c \in CurlCells \ CurlInterior : curl[k][c] = 0

(***************************************************************************)
(* Exact rational numbers <<numerator, denominator>>, denominator > 0, in  *)
(* lowest terms: the values of the penalised field.                        *)
(***************************************************************************)
Abs(x) == IF x < 0 THEN -x ELSE x

RECURSIVE GCD(_, _)
GCD(a, b) == IF b = 0 THEN a ELSE GCD(b, a % b)

Rat(n, d) == LET g == GCD(Abs(n), d) IN <<n \div g, d \div g>>
RMul(a, b) == Rat(a[1] * b[1], a[2] * b[2])
RLeq(a, b) == a[1] * b[2] <= b[1] * a[2]
RLess(a, b) == a[1] * b[2] < b[1] * a[2]
RZero == <<0, 1>>
ROne == <<1, 1>>

\* Angles are kept exactly, as rational multiples <<n, d>> of pi/2.
\* sin on [0, pi] is evaluated by Bhaskara's rational approximant
\*     sin(t) ~ 16 t (pi - t) / (5 pi^2 - 4 t (pi - t)),
\* which with t = (pi/2) (n/d) is 4 n (2d - n) / (5 d^2 - n (2d - n)): exact at
\* 0, pi/6, pi/2, strictly increasing on [0, pi/2] and below 1 except at pi/2, as sin is.
sin(angle) ==
    LET n == angle[1]
        d == angle[2]
    IN  Rat(4 * n * (2 * d - n), 5 * d * d - n * (2 * d - n))

(***************************************************************************)
(* numpy basic slicing along one axis of extent n, and broadcast assignment *)
(***************************************************************************)
SliceIndex(i, n) == IF i < 0 THEN (IF i + n < 0 THEN 0 ELSE i + n)
                             ELSE (IF i > n THEN n ELSE i)
\* the indices selected by start:stop (an omitted start is 0, an omitted stop is n)
PySlice(start, stop, n) ==
    {i \in 0..(n - 1) : SliceIndex(start, n) <= i /\ i < SliceIndex(stop, n)}
SetMin(S) == CHOOSE x \in S : \A y \in S : x <= y

(***************************************************************************)
(* gen_penalise_field_boundary_pyst_kernel_2d                              *)
(***************************************************************************)
PenRows == 7
PenCols == 8
MaxWidth == 3
MaxPenCalls == 1
PenCells == Cells2(PenRows, PenCols)

\* field[:, tgt] = field[:, src] and field[tgt, :] = field[src, :] : a source of one
\* column (row) is broadcast over the target, a source of the target's extent is
\* copied, and any other extent makes numpy raise (the field is then left as it was).
AssignColumns(fld, tgt, src) ==
    IF Cardinality(src) = 1 \/ Cardinality(src) = Cardinality(tgt)
    THEN [field |-> [c \in PenCells |->
                        IF c[2] \in tgt
                        THEN fld[<<c[1], IF Cardinality(src) = 1 THEN SetMin(src)
                                         ELSE c[2] - SetMin(tgt) + SetMin(src)>>]
                        ELSE fld[c]],
          raised |-> FALSE]
    ELSE [field |-> fld, raised |-> TRUE]

AssignRows(fld, tgt, src) ==
    IF Cardinality(src) = 1 \/ Cardinality(src) = Cardinality(tgt)
    THEN [field |-> [c \in PenCells |->
                        IF c[1] \in tgt
                        THEN fld[<<IF Cardinality(src) = 1 THEN SetMin(src)
                                   ELSE c[1] - SetMin(tgt) + SetMin(src), c[2]>>]
                        ELSE fld[c]],
          raised |-> FALSE]
    ELSE [field |-> fld, raised |-> TRUE]

\* Fault: the precondition checks the sign of width but not its type.
width_assertion_without_type(width) == width.val > 0

\* assert width > 0 and isinstance(width, int)
width_assertion(width) == width.val > 0 /\ width.is_int

\* Fault: the grid spacing is left out of the angular frequency.
sine_prefactor_without_dx(width, spacing) == <<1, width>>

\* (np.pi / 2) / (width * dx), as a rational multiple of pi/2 per unit length
sine_prefactor(width, spacing) == <<1, width * spacing>>

\* sine_prefactor * delta, as a rational multiple of pi/2
Angle(prefactor, delta) == <<prefactor[1] * delta, prefactor[2]>>

\* iteration slices of the four taper kernels
x_front_boundary_slice(width) == {c \in PenCells : c[2] \in PySlice(0, width, PenCols)}
x_back_boundary_slice(width) == {c \in PenCells : c[2] \in PySlice(-width, PenCols, PenCols)}
y_front_boundary_slice(width) == {c \in PenCells : c[1] \in PySlice(0, width, PenRows)}
y_back_boundary_slice(width) == {c \in PenCells : c[1] \in PySlice(-width, PenRows, PenRows)}

\* The generator: the closure it returns, or the failed precondition.
gen_penalise_field_boundary_pyst_kernel_2d(width, spacing, xg, yg) ==
    IF ~width_assertion(width)
    THEN [status |-> "error"]
    ELSE [status |-> "ok",
          width |-> width.val,
          sine_prefactor |-> sine_prefactor(width.val, spacing),
          x_grid_field_start |-> xg[<<0, 0>>],
          y_grid_field_start |-> yg[<<0, 0>>],
          x_grid_field_end |-> xg[<<0, PenCols - 1>>],
          y_grid_field_end |-> yg[<<PenRows - 1, 0>>]]

\* The multiplicative factor each taper kernel applies at cell c.
x_front_taper(k, xg, c) ==
    sin(Angle(k.sine_prefactor, xg[c] - k.x_grid_field_start))
x_back_taper(k, xg, c) ==
    sin(Angle(k.sine_prefactor, k.x_grid_field_end - xg[c]))
y_front_taper(k, yg, c) ==
    sin(Angle(k.sine_prefactor, yg[c] - k.y_grid_field_start))
y_back_taper(k, yg, c) ==
    sin(Angle(k.sine_prefactor, k.y_grid_field_end - yg[c]))

penalise_field_x_front_boundary_kernel_2d(k, fld, xg) ==
    [c \in PenCells |->
        IF c \in x_front_boundary_slice(k.width)
        THEN RMul(fld[c], x_front_taper(k, xg, c)) ELSE fld[c]]

penalise_field_x_back_boundary_kernel_2d(k, fld, xg) ==
    [c \in PenCells |->
        IF c \in x_back_boundary_slice(k.width)
        THEN RMul(fld[c], x_back_taper(k, xg, c)) ELSE fld[c]]

penalise_field_y_front_boundary_kernel_2d(k, fld, yg) ==
    [c \in PenCells |->
        IF c \in y_front_boundary_slice(k.width)
        THEN RMul(fld[c], y_front_taper(k, yg, c)) ELSE fld[c]]

penalise_field_y_back_boundary_kernel_2d(k, fld, yg) ==
    [c \in PenCells |->
        IF c \in y_back_boundary_slice(k.width)
        THEN RMul(fld[c], y_back_taper(k, yg, c)) ELSE fld[c]]

\* Fault: the x-front extrapolation writes one column too many.
flat_extrapolation_x_front_too_wide(fld, width) ==
    AssignColumns(fld, PySlice(0, width + 1, PenCols), PySlice(width - 1, width, PenCols))

\* field[:, :width] = field[:, (width - 1) : width]
flat_extrapolation_x_front(fld, width) ==
    AssignColumns(fld, PySlice(0, width, PenCols), PySlice(width - 1, width, PenCols))
\* field[:, -width:] = field[:, -width : (-width + 1)]
flat_extrapolation_x_back(fld, width) ==
    AssignColumns(fld, PySlice(-width, PenCols, PenCols),
                  PySlice(-width, -width + 1, PenCols))
\* Fault: the y-front extrapolation copies the first row inside the band's inner edge.
flat_extrapolation_y_front_wrong_row(fld, width) ==
    AssignRows(fld, PySlice(0, width, PenRows), PySlice(width, width + 1, PenRows))

\* field[:width, :] = field[(width - 1) : width, :]
flat_extrapolation_y_front(fld, width) ==
    AssignRows(fld, PySlice(0, width, PenRows), PySlice(width - 1, width, PenRows))
\* field[-width:, :] = field[-width : (-width + 1), :]
flat_extrapolation_y_back(fld, width) ==
    AssignRows(fld, PySlice(-width, PenRows, PenRows),
               PySlice(-width, -width + 1, PenRows))

\* The kernel call: the field it leaves, and whether it raised on the way (the
\* statements before the raising one have then taken effect, the later ones not).
penalise_field_boundary_pyst_kernel_2d(k, fld, xg, yg) ==
    LET \* first along X
        s1 == flat_extrapolation_x_front(fld, k.width)
        s2 == IF s1.raised THEN s1 ELSE flat_extrapolation_x_back(s1.field, k.width)
        s3 == IF s2.raised THEN s2
              ELSE [field |-> penalise_field_x_back_boundary_kernel_2d(k,
                                  penalise_field_x_front_boundary_kernel_2d(k, s2.field, xg),
                                  xg),
                    raised |-> FALSE]
        \* then along Y
        s4 == IF s3.raised THEN s3 ELSE flat_extrapolation_y_front(s3.field, k.width)
        s5 == IF s4.raised THEN s4 ELSE flat_extrapolation_y_back(s4.field, k.width)
    IN  IF s5.raised THEN s5
        ELSE [field |-> penalise_field_y_back_boundary_kernel_2d(k,
                            penalise_field_y_front_boundary_kernel_2d(k, s5.field, yg),
                            yg),
              raised |-> FALSE]

(***************************************************************************)
(* The driver of the boundary penalisation: allocate the buffers, build    *)
(* the kernel once, then call it on the field.                             *)
(***************************************************************************)
\* widths a caller may hand over: Python ints, and floats such as 2.0
WidthArgs == [val : (-1)..MaxWidth, is_int : BOOLEAN]
Spacings == {1, 2}
Origins == {0, 3}

\* Caller-supplied data: every cell holds a different non-zero value.
PenFieldPool ==
    {[c \in PenCells |->
         Rat((IF s % 2 = 1 THEN -1 ELSE 1) * (1 + s + c[1] * PenCols + c[2]), 1)]
     : s \in 0..(NumSeeds - 1)}

InitPen ==
    /\ dx \in Spacings
    /\ \E x0 \in Origins : x_grid_field = [c \in PenCells |-> x0 + c[2] * dx]
    /\ \E y0 \in Origins : y_grid_field = [c \in PenCells |-> y0 + c[1] * dx]
    /\ pen_field \in PenFieldPool
    /\ width_arg \in WidthArgs
    /\ pen_kernel = [status |-> "none"]
    /\ pen_raised = FALSE
    /\ pen_calls = 0
    /\ pen_field_prev = pen_field
    /\ pen_buffers_init = <<pen_field, x_grid_field, y_grid_field>>
    /\ IdleVort
    /\ IdleCurl

GenPenaliseFieldBoundary ==
    /\ pen_kernel.status = "none"
    /\ pen_kernel' = gen_penalise_field_boundary_pyst_kernel_2d(
                         width_arg, dx, x_grid_field, y_grid_field)
    /\ UNCHANGED <<pen_field, x_grid_field, y_grid_field, dx, width_arg, pen_raised,
                   pen_calls, pen_field_prev, pen_buffers_init, vortVars, curlVars>>

PenaliseFieldBoundary ==
    /\ pen_kernel.status = "ok"
    /\ pen_calls < MaxPenCalls
    /\ LET r == penalise_field_boundary_pyst_kernel_2d(
                    pen_kernel, pen_field, x_grid_field, y_grid_field)
       IN  /\ pen_field' = r.field
           /\ pen_raised' = r.raised
    /\ pen_calls' = pen_calls + 1
    /\ pen_field_prev' = pen_field
    /\ UNCHANGED <<x_grid_field, y_grid_field, dx, width_arg, pen_kernel,
                   pen_buffers_init, vortVars, curlVars>>

NextPen ==
    \/ GenPenaliseFieldBoundary
    \/ PenaliseFieldBoundary

SpecPen == InitPen /\ [][NextPen]_vars

(***************************************************************************)
(* Properties of the boundary penalisation                                 *)
(***************************************************************************)
\* A kernel was built, with a width below half of both extents.
ValidWidth ==
    /\ pen_kernel.status = "ok"
    /\ 2 * pen_kernel.width < PenRows
    /\ 2 * pen_kernel.width < PenCols

\* Distance in cells from the outer edge of the band a row / column index lies in.
RowDistance(r) == IF r < pen_kernel.width THEN r ELSE PenRows - 1 - r
ColDistance(j) == IF j < pen_kernel.width THEN j ELSE PenCols - 1 - j
\* The innermost row / column of the band a row / column index lies in.
InnerRow(r) == IF r < pen_kernel.width THEN pen_kernel.width - 1 ELSE PenRows - pen_kernel.width
InnerCol(j) == IF j < pen_kernel.width THEN pen_kernel.width - 1 ELSE PenCols - pen_kernel.width
InRowBand(r) == r < pen_kernel.width \/ r > PenRows - 1 - pen_kernel.width
InColBand(j) == j < pen_kernel.width \/ j > PenCols - 1 - pen_kernel.width

\* The taper of the claims: sin of (pi/2) * d / width.
Taper(d) == sin(<<d, pen_kernel.width>>)

\* C5: for every width with 2*width < N and 2*width < M, after a call of
\* penalise_field_boundary every cell (r, c) with width <= r <= N-1-width and
\* width <= c <= M-1-width has exactly its pre-call value.
C5_CenterUnchanged ==
    (pen_calls >= 1 /\ ValidWidth) =>
        \A c \in PenCells :
            (/\ pen_kernel.width <= c[1] /\ c[1] <= PenRows - 1 - pen_kernel.width
             /\ pen_kernel.width <= c[2] /\ c[2] <= PenCols - 1 - pen_kernel.width)
                => pen_field[c] = pen_field_prev[c]

C5_Witness ==
    /\ pen_calls = 1
    /\ ValidWidth
    /\ ~pen_raised
    /\ pen_kernel.width >= 2
    /\ \A c \in PenCells : (InRowBand(c[1]) \/ InColBand(c[2])) => pen_field[c] # pen_field_prev[c]
    /\ \E c \in PenCells : ~InRowBand(c[1]) /\ ~InColBand(c[2]) /\ pen_field[c] # RZero

\* C6: constructing the operator with a width that is zero, negative or not an
\* integer ends in an error at construction: no kernel exists, so none is ever
\* called, and the field and coordinate buffers are as they were allocated.
C6_WidthPreconditionFailsFast ==
    (pen_kernel.status # "none" /\ (width_arg.val <= 0 \/ ~width_arg.is_int)) =>
        /\ pen_kernel.status = "error"
        /\ pen_calls = 0
        /\ <<pen_field, x_grid_field, y_grid_field>> = pen_buffers_init

C6_Witness ==
    /\ pen_kernel.status = "error"
    /\ width_arg = [val |-> 2, is_int |-> FALSE]
    /\ pen_calls = 0

\* The taper factor of every band cell is sin((pi/2) * d / width), d the distance in
\* cells from the band's outer edge (front: d = index, back: d = extent-1-index); it
\* is 0 at d = 0 and non-decreasing in d; and a completed call leaves every band cell
\* outside the corners equal to the pre-call innermost band cell times that factor.
TaperProfile ==
    /\ \A c \in PenCells :
          /\ c \in x_front_boundary_slice(pen_kernel.width) =>
                 x_front_taper(pen_kernel, x_grid_field, c) = Taper(c[2])
          /\ c \in x_back_boundary_slice(pen_kernel.width) =>
                 x_back_taper(pen_kernel, x_grid_field, c) = Taper(PenCols - 1 - c[2])
          /\ c \in y_front_boundary_slice(pen_kernel.width) =>
                 y_front_taper(pen_kernel, y_grid_field, c) = Taper(c[1])
          /\ c \in y_back_boundary_slice(pen_kernel.width) =>
                 y_back_taper(pen_kernel, y_grid_field, c) = Taper(PenRows - 1 - c[1])
    /\ Taper(0) = RZero
    /\ \A d \in 0..(pen_kernel.width - 2) : RLeq(Taper(d), Taper(d + 1))
    /\ (pen_calls >= 1 /\ ~pen_raised) =>
          \A c \in PenCells :
              /\ (InColBand(c[2]) /\ ~InRowBand(c[1])) =>
                     pen_field[c] = RMul(pen_field_prev[<<c[1], InnerCol(c[2])>>],
                                         Taper(ColDistance(c[2])))
              /\ (InRowBand(c[1]) /\ ~InColBand(c[2])) =>
                     pen_field[c] = RMul(pen_field_prev[<<InnerRow(c[1]), c[2]>>],
                                         Taper(RowDistance(c[1])))

\* C7 (as claimed): the taper has the profile above and reaches sin(pi/2) = 1, i.e.
\* phase exactly pi/2, at the band's innermost cell d = width - 1.
C7_TaperReachesOneAtInnermostCell ==
    ValidWidth =>
        /\ TaperProfile
        /\ Taper(pen_kernel.width - 1) = ROne
        /\ Rat(pen_kernel.width - 1, pen_kernel.width) = ROne

\* C7 (amended): the taper has the profile above; at the band's innermost cell
\* d = width - 1 its phase is (pi/2) * (width-1)/width, below pi/2, and the factor is
\* below 1; phase pi/2 and factor 1 belong to d = width, the first cell inside the band.
C7_TaperProfile ==
    ValidWidth =>
        /\ TaperProfile
        /\ RLess(Rat(pen_kernel.width - 1, pen_kernel.width), ROne)
        /\ RLess(Taper(pen_kernel.width - 1), ROne)
        /\ Taper(pen_kernel.width) = ROne

C7_Witness ==
    /\ ValidWidth
    /\ pen_kernel.width = MaxWidth
    /\ dx = 2
    /\ pen_calls >= 1
    /\ ~pen_raised
    /\ RLess(RZero, Taper(1)) /\ RLess(Taper(1), Taper(2)) /\ RLess(Taper(2), ROne)

\* C8 (as claimed): for every positive integer width with 2*width < N and
\* 2*width < M, width = 1 included, a call of penalise_field_boundary completes
\* without raising, every band having been overwritten with the value of its
\* innermost column (x bands: width-1, M-width) or row (y bands: width-1, N-width).
C8_EveryValidWidthAccepted ==
    (pen_calls >= 1 /\ ValidWidth) =>
        /\ ~pen_raised
        /\ \A c \in PenCells :
              /\ (InColBand(c[2]) /\ ~InRowBand(c[1])) =>
                     pen_field[c] = RMul(pen_field_prev[<<c[1], InnerCol(c[2])>>],
                                         x_front_taper(pen_kernel, x_grid_field,
                                                       <<c[1], ColDistance(c[2])>>))
              /\ (InRowBand(c[1]) /\ ~InColBand(c[2])) =>
                     pen_field[c] = RMul(pen_field_prev[<<InnerRow(c[1]), c[2]>>],
                                         y_front_taper(pen_kernel, y_grid_field,
                                                       <<RowDistance(c[1]), c[2]>>))

\* C9: after a call of penalise_field_boundary that completes (2*width below both
\* extents), every cell lying in both an x band and a y band holds the pre-call
\* value of the innermost corner cell of the two bands times the x taper of its
\* column times the y taper of its row.
C9_CornerProductOfTapers ==
    (pen_calls >= 1 /\ ValidWidth /\ ~pen_raised) =>
        \A c \in PenCells :
            (InRowBand(c[1]) /\ InColBand(c[2])) =>
                pen_field[c] =
                    RMul(RMul(pen_field_prev[<<InnerRow(c[1]), InnerCol(c[2])>>],
                              Taper(ColDistance(c[2]))),
                         Taper(RowDistance(c[1])))

C9_Witness ==
    /\ pen_calls = 1
    /\ ValidWidth
    /\ ~pen_raised
    /\ pen_kernel.width = MaxWidth
    /\ pen_field[<<1, 2>>] # RZero
    /\ pen_field[<<1, 2>>] # pen_field_prev[<<1, 2>>]
    /\ pen_field[<<PenRows - 2, 1>>] # RZero
    /\ pen_field[<<1, PenCols - 2>>] # RZero
    /\ pen_field[<<PenRows - 2, PenCols - 3>>] # RZero

====
